---- MODULE Spec2Model ----
(***************************************************************************)
(* Model of ComponentAnalyzer (src/lib/rekognition.js): the classification *)
(* of Rekognition labels into component types, the per-type attribute      *)
(* extractors and the assembly of the identification result.               *)
(*                                                                         *)
(* JavaScript strings are TLA+ strings; TLC evaluates Len, Head, Tail,     *)
(* SubSeq and \o on them.  A JavaScript null / absent property is the      *)
(* empty tuple <<>> and a present string v is the one-element tuple <<v>>. *)
(* A confidence is a number of quarters of a percent (360 is 90%, 361 is   *)
(* 90.25%): these are doubles that toFixed(1) rounds exactly.              *)
(***************************************************************************)
EXTENDS Integers, Sequences, FiniteSets, TLC

VARIABLES
    pc,              \* the caller's position: "idle", "awaiting", "returned", "rejected"
    op,              \* the operation invoked last
    labels,          \* the label sequence the operation was given
    textDetections,  \* the text-detection sequence the operation was given
    ret,             \* the value the operation returned
    summary,         \* the string generateIdentificationSummary returned
    first,           \* the first result interpretResults gave for the caller's arrays
    imageSource,     \* the argument of analyzeComponent
    labelsFetch,     \* the promise of detectLabels: [state, value]
    textFetch,       \* the promise of detectText: [state, value]
    interpretCalls   \* how often analyzeComponent has invoked interpretResults

vars ==
    << pc, op, labels, textDetections, ret, summary, first,
       imageSource, labelsFetch, textFetch, interpretCalls >>

\* what belongs to a call of analyzeComponent
fetchVars == << imageSource, labelsFetch, textFetch, interpretCalls >>

(***************************************************************************)
(* Bounds of the model.                                                    *)
(***************************************************************************)
\* longest label sequence passed to identifyComponentType
MaxLabels == 3
\* longest text-detection sequence passed to analyzeCapacitor and analyzeIC
MaxTexts == 3
\* longest label and text-detection sequences passed to analyzeResistor
MaxResistorLabels == 3
MaxResistorTexts == 2
\* longest label and text-detection sequences passed to interpretResults
MaxInterpretLabels == 2
MaxInterpretTexts == 1
\* longest label and text-detection sequences of a result that is reported
MaxReportLabels == 2
MaxReportTexts == 3
\* longest Labels and TextDetections of a response of the service
MaxFetchedLabels == 2
MaxFetchedTexts == 1
\* longest sequence of labels whose names hold several types' keywords
MaxOverlapLabels == 3

(***************************************************************************)
(* Strings.                                                                *)
(***************************************************************************)
Omega == "Ω"
SmallOmega == "ω"
MicroSign == "µ"
SmallMu == "μ"
CapitalMu == "Μ"

UpperLetters == "ABCDEFGHIJKLMNOPQRSTUVWXYZ"
LowerLetters == "abcdefghijklmnopqrstuvwxyz"

CharAt(s, i) == SubSeq(s, i, i)

IndexIn(s, c) == CHOOSE i \in 1..Len(s) : CharAt(s, i) = c

\* toLowerCase / toUpperCase of the characters that have another case
LowerOf ==
    [c \in {CharAt(UpperLetters, i) : i \in 1..Len(UpperLetters)} |->
        CharAt(LowerLetters, IndexIn(UpperLetters, c))]
    @@ (Omega :> SmallOmega) @@ (CapitalMu :> SmallMu)

UpperOf ==
    [c \in {CharAt(LowerLetters, i) : i \in 1..Len(LowerLetters)} |->
        CharAt(UpperLetters, IndexIn(LowerLetters, c))]
    @@ (SmallOmega :> Omega) @@ (SmallMu :> CapitalMu) @@ (MicroSign :> CapitalMu)

\* the image of c under a case map; a character without another case is kept
Mapped(map, c) == IF c \in DOMAIN map THEN map[c] ELSE c

RECURSIVE toLowerCase(_)
toLowerCase(s) ==
    IF s = "" THEN "" ELSE Mapped(LowerOf, Head(s)) \o toLowerCase(Tail(s))

RECURSIVE toUpperCase(_)
toUpperCase(s) ==
    IF s = "" THEN "" ELSE Mapped(UpperOf, Head(s)) \o toUpperCase(Tail(s))

\* String.prototype.includes
includes(s, sub) ==
    \E i \in 0..(Len(s) - Len(sub)) : SubSeq(s, i + 1, i + Len(sub)) = sub

\* String.prototype.substring(0, n)
substring0(s, n) == SubSeq(s, 1, IF n < Len(s) THEN n ELSE Len(s))

WhiteSpace == {" ", "\t", "\n", "\r"}

IsSpace(c) == c \in WhiteSpace

Digits == {"0", "1", "2", "3", "4", "5", "6", "7", "8", "9"}

IsDigit(c) == c \in Digits

RECURSIVE trimStart(_)
trimStart(s) ==
    IF s # "" /\ IsSpace(Head(s)) THEN trimStart(Tail(s)) ELSE s

RECURSIVE trimEnd(_)
trimEnd(s) ==
    IF s # "" /\ IsSpace(CharAt(s, Len(s)))
    THEN trimEnd(SubSeq(s, 1, Len(s) - 1)) ELSE s

\* String.prototype.trim
trim(s) == trimEnd(trimStart(s))

\* Array.prototype.join(', ') and template concatenation are \o on strings.

(***************************************************************************)
(* identifyComponentType                                                   *)
(***************************************************************************)
\* Object.entries(typeKeywords) yields the keys in insertion order
TypeOrder ==
    << "resistor", "capacitor", "diode", "transistor",
       "integrated_circuit", "connector", "inductor" >>

\* fault injection: "ic" is no keyword of integrated_circuit
typeKeywords_WithoutIc ==
    [ resistor |-> <<"resistor", "resistance", "band", "cylinder", "electronic component">>,
      capacitor |-> <<"capacitor", "electrolytic", "ceramic">>,
      diode |-> <<"diode", "led", "semiconductor">>,
      transistor |-> <<"transistor", "mosfet", "bjt">>,
      integrated_circuit |-> <<"chip", "microchip", "processor", "circuit board">>,
      connector |-> <<"connector", "pin", "header", "socket">>,
      inductor |-> <<"inductor", "coil">> ]

typeKeywords ==
    [ resistor |-> <<"resistor", "resistance", "band", "cylinder", "electronic component">>,
      capacitor |-> <<"capacitor", "electrolytic", "ceramic">>,
      diode |-> <<"diode", "led", "semiconductor">>,
      transistor |-> <<"transistor", "mosfet", "bjt">>,
      integrated_circuit |-> <<"chip", "ic", "microchip", "processor", "circuit board">>,
      connector |-> <<"connector", "pin", "header", "socket">>,
      inductor |-> <<"inductor", "coil">> ]

\* keywords.some(keyword => labelLower.includes(keyword))
LabelMatches(type, label) ==
    LET labelLower == toLowerCase(label.Name)
        keywords == typeKeywords[type]
    IN  \E k \in 1..Len(keywords) : includes(labelLower, keywords[k])

\* fault injection: the inner loop without its break, every matching label
\* pushes an entry
RECURSIVE ScanLabels_NoBreak(_, _, _)
ScanLabels_NoBreak(type, ls, i) ==
    IF i > Len(ls) THEN << >>
    ELSE (IF LabelMatches(type, ls[i])
          THEN << [type |-> type, confidence |-> ls[i].Confidence,
                   matchedLabel |-> ls[i].Name] >>
          ELSE << >>) \o ScanLabels_NoBreak(type, ls, i + 1)

\* the inner loop: the first matching label pushes one entry, then break
RECURSIVE ScanLabels(_, _, _)
ScanLabels(type, ls, i) ==
    IF i > Len(ls) THEN << >>
    ELSE IF LabelMatches(type, ls[i])
         THEN << [type |-> type, confidence |-> ls[i].Confidence,
                  matchedLabel |-> ls[i].Name] >>
         ELSE ScanLabels(type, ls, i + 1)

\* the outer loop over the types, in TypeOrder
RECURSIVE CollectMatches(_, _)
CollectMatches(ls, t) ==
    IF t > Len(TypeOrder) THEN << >>
    ELSE ScanLabels(TypeOrder[t], ls, 1) \o CollectMatches(ls, t + 1)

\* the comparator (a, b) => b.confidence - a.confidence
compareFn(a, b) == b.confidence - a.confidence

\* fault injection: an insertion that moves x before its equals too (an
\* unstable sort)
RECURSIVE InsertSorted_Unstable(_, _)
InsertSorted_Unstable(s, x) ==
    IF s = << >> THEN << x >>
    ELSE IF compareFn(s[Len(s)], x) >= 0
         THEN Append(InsertSorted_Unstable(SubSeq(s, 1, Len(s) - 1), x), s[Len(s)])
         ELSE Append(s, x)

\* insert x into the sorted sequence s after every element it does not precede
RECURSIVE InsertSorted(_, _)
InsertSorted(s, x) ==
    IF s = << >> THEN << x >>
    ELSE IF compareFn(s[Len(s)], x) > 0
         THEN Append(InsertSorted(SubSeq(s, 1, Len(s) - 1), x), s[Len(s)])
         ELSE Append(s, x)

\* fault injection: the matches returned in the order they were pushed
sort_Omitted(s) == s

\* Array.prototype.sort(compareFn): a stable sort
RECURSIVE sort(_)
sort(s) ==
    IF s = << >> THEN << >>
    ELSE InsertSorted(sort(SubSeq(s, 1, Len(s) - 1)), s[Len(s)])

identifyComponentType(ls) == sort(CollectMatches(ls, 1))

(***************************************************************************)
(* Regular expressions.  A pattern is a sequence of items, each either a   *)
(* character class repeated min..max times (max = -1: unbounded), greedy,  *)
(* or an alternation of literals tried in order; anchorStart / anchorEnd   *)
(* are ^ and $; groups gives, for each capture group, its first and last   *)
(* item.  All patterns of the analyzer carry the i flag and no u flag: a   *)
(* pattern character and an input character match when their toUpperCase  *)
(* images are equal, so the items hold upper-cased characters and are      *)
(* matched against the upper-cased input u (\d and \s contain no cased     *)
(* character).  The matcher backtracks as the JavaScript one does: start   *)
(* positions left to right, repetitions from the longest down,             *)
(* alternatives in order.                                                  *)
(***************************************************************************)
CharsOf(s) == {CharAt(s, i) : i \in 1..Len(s)}

Repeated(set, min, max) ==
    [kind |-> "class", set |-> set, min |-> min, max |-> max, lits |-> << >>]

OneOf(lits) ==
    [kind |-> "alt", set |-> {}, min |-> 1, max |-> 1, lits |-> lits]

MatchFailed == [ok |-> FALSE, ends |-> << >>]

\* how many characters of u from position p on lie in set, at most max
RECURSIVE RunLength(_, _, _, _, _)
RunLength(u, p, set, max, n) ==
    IF n # max /\ p + n <= Len(u) /\ CharAt(u, p + n) \in set
    THEN RunLength(u, p, set, max, n + 1)
    ELSE n

\* items k.. of pat matched at position p of u: the position after each item
RECURSIVE MatchFrom(_, _, _, _)
RECURSIVE Repeat(_, _, _, _, _)
RECURSIVE Alternatives(_, _, _, _, _)
MatchFrom(pat, k, u, p) ==
    IF k > Len(pat.items)
    THEN [ok |-> (~pat.anchorEnd) \/ p = Len(u) + 1, ends |-> << >>]
    ELSE IF pat.items[k].kind = "class"
    THEN Repeat(pat, k, u, p,
                RunLength(u, p, pat.items[k].set, pat.items[k].max, 0))
    ELSE Alternatives(pat, k, u, p, 1)

\* item k taken n times, then the rest; on failure one repetition fewer
Repeat(pat, k, u, p, n) ==
    IF n < pat.items[k].min THEN MatchFailed
    ELSE LET rest == MatchFrom(pat, k + 1, u, p + n)
         IN  IF rest.ok THEN [ok |-> TRUE, ends |-> << p + n >> \o rest.ends]
             ELSE Repeat(pat, k, u, p, n - 1)

\* alternative j of item k, then the rest; on failure the next alternative
Alternatives(pat, k, u, p, j) ==
    IF j > Len(pat.items[k].lits) THEN MatchFailed
    ELSE LET q == p + Len(pat.items[k].lits[j])
             rest == IF q - 1 <= Len(u) /\ SubSeq(u, p, q - 1) = pat.items[k].lits[j]
                     THEN MatchFrom(pat, k + 1, u, q)
                     ELSE MatchFailed
         IN  IF rest.ok THEN [ok |-> TRUE, ends |-> << q >> \o rest.ends]
             ELSE Alternatives(pat, k, u, p, j + 1)

\* the text of capture group n of a match of pat on s that starts at i
GroupText(pat, s, i, ends, n) ==
    SubSeq(s,
           IF pat.groups[n][1] = 1 THEN i ELSE ends[pat.groups[n][1] - 1],
           ends[pat.groups[n][2]] - 1)

NoMatch == [found |-> FALSE, g |-> << >>]

\* the first start position i.. at which pat matches
RECURSIVE ExecFrom(_, _, _, _)
ExecFrom(pat, s, u, i) ==
    IF i > Len(u) + 1 THEN NoMatch
    ELSE LET m == MatchFrom(pat, 1, u, i)
         IN  IF m.ok
             THEN [found |-> TRUE,
                   g |-> [n \in 1..Len(pat.groups) |-> GroupText(pat, s, i, m.ends, n)]]
             ELSE IF pat.anchorStart THEN NoMatch
             ELSE ExecFrom(pat, s, u, i + 1)

\* String.prototype.match / RegExp.prototype.test
exec(pat, s) == ExecFrom(pat, s, toUpperCase(s), 1)

\* /(\d+\.?\d*)\s*([kKmM]?)(Ω|ohm|R)/i
resistancePattern ==
    [ items |-> << Repeated(Digits, 1, -1), Repeated({"."}, 0, 1),
                   Repeated(Digits, 0, -1), Repeated(WhiteSpace, 0, -1),
                   Repeated(CharsOf(toUpperCase("kKmM")), 0, 1),
                   OneOf(<< toUpperCase(Omega), toUpperCase("ohm"), toUpperCase("R") >>) >>,
      groups |-> << <<1, 3>>, <<5, 5>>, <<6, 6>> >>,
      anchorStart |-> FALSE, anchorEnd |-> FALSE ]

\* /(\d+\.?\d*)\s*([µuμpnm]?F)/i
capacitancePattern ==
    [ items |-> << Repeated(Digits, 1, -1), Repeated({"."}, 0, 1),
                   Repeated(Digits, 0, -1), Repeated(WhiteSpace, 0, -1),
                   Repeated(CharsOf(toUpperCase(MicroSign \o "u" \o SmallMu \o "pnm")), 0, 1),
                   OneOf(<< toUpperCase("F") >>) >>,
      groups |-> << <<1, 3>>, <<5, 6>> >>,
      anchorStart |-> FALSE, anchorEnd |-> FALSE ]

\* /(\d+)\s*V/i
voltagePattern ==
    [ items |-> << Repeated(Digits, 1, -1), Repeated(WhiteSpace, 0, -1),
                   OneOf(<< toUpperCase("V") >>) >>,
      groups |-> << <<1, 1>> >>,
      anchorStart |-> FALSE, anchorEnd |-> FALSE ]

\* /^[A-Z0-9]{4,12}$/i
partNumberPattern ==
    [ items |-> << Repeated(CharsOf(UpperLetters) \cup Digits, 4, 12) >>,
      groups |-> << >>,
      anchorStart |-> TRUE, anchorEnd |-> TRUE ]

(***************************************************************************)
(* The attribute extractors.                                               *)
(***************************************************************************)
\* Object.keys(ResistorColorCodes), in insertion order
ResistorColorCodes ==
    << "BLACK", "BROWN", "RED", "ORANGE", "YELLOW",
       "GREEN", "BLUE", "VIOLET", "GREY", "WHITE" >>

\* textDetections.filter(t => t.Type === 'LINE').map(t => t.DetectedText)
Texts(lines) == [i \in 1..Len(lines) |-> lines[i].DetectedText]

LineTexts(tds) == Texts(SelectSeq(tds, LAMBDA t : t.Type = "LINE"))

\* the predicate of the colorLabels filter
IsColorLabel(l) ==
    \E c \in 1..Len(ResistorColorCodes) :
        includes(toLowerCase(l.Name), toLowerCase(ResistorColorCodes[c]))

\* fault injection: the loop over texts without its break, the last match
\* sets the value
RECURSIVE ResistorValueLoop_NoBreak(_, _)
ResistorValueLoop_NoBreak(texts, i) ==
    IF i > Len(texts) THEN << >>
    ELSE LET match == exec(resistancePattern, texts[i])
             later == ResistorValueLoop_NoBreak(texts, i + 1)
         IN  IF later # << >> \/ ~match.found THEN later
             ELSE << match.g[1] \o match.g[2] \o Omega >>

\* the loop over texts of analyzeResistor: the first match sets the value, then break
RECURSIVE ResistorValueLoop(_, _)
ResistorValueLoop(texts, i) ==
    IF i > Len(texts) THEN << >>
    ELSE LET match == exec(resistancePattern, texts[i])
         IN  IF match.found THEN << match.g[1] \o match.g[2] \o Omega >>
             ELSE ResistorValueLoop(texts, i + 1)

\* fault injection: color bands reported from a single color label on
ResistorAnalysis_OneColor(colorLabels, estimatedValue) ==
    [ hasColorBands |-> Len(colorLabels) >= 1,
      detectedColors |->
          IF Len(colorLabels) >= 1
          THEN [i \in 1..Len(colorLabels) |-> colorLabels[i].Name]
          ELSE << >>,
      note |->
          IF Len(colorLabels) >= 1
          THEN << "Resistor identified with visible color bands" >>
          ELSE << >>,
      estimatedValue |-> estimatedValue ]

\* the fields analyzeResistor sets from colorLabels and from the texts
ResistorAnalysis(colorLabels, estimatedValue) ==
    [ hasColorBands |-> Len(colorLabels) >= 2,
      detectedColors |->
          IF Len(colorLabels) >= 2
          THEN [i \in 1..Len(colorLabels) |-> colorLabels[i].Name]
          ELSE << >>,
      note |->
          IF Len(colorLabels) >= 2
          THEN << "Resistor identified with visible color bands" >>
          ELSE << >>,
      estimatedValue |-> estimatedValue ]

analyzeResistor(ls, tds) ==
    ResistorAnalysis(SelectSeq(ls, IsColorLabel), ResistorValueLoop(LineTexts(tds), 1))

\* fault injection: a field once set is not overwritten by a later match
CapacitorStep_KeepsFirst(analysis, capMatch, voltMatch) ==
    [ estimatedValue |->
          IF capMatch.found /\ analysis.estimatedValue = << >>
          THEN << capMatch.g[1] \o capMatch.g[2] >>
          ELSE analysis.estimatedValue,
      voltage |->
          IF voltMatch.found /\ analysis.voltage = << >>
          THEN << voltMatch.g[1] \o "V" >>
          ELSE analysis.voltage ]

\* one iteration of the loop of analyzeCapacitor, given the two match results
CapacitorStep(analysis, capMatch, voltMatch) ==
    [ estimatedValue |->
          IF capMatch.found THEN << capMatch.g[1] \o capMatch.g[2] >>
          ELSE analysis.estimatedValue,
      voltage |->
          IF voltMatch.found THEN << voltMatch.g[1] \o "V" >>
          ELSE analysis.voltage ]

RECURSIVE CapacitorLoop(_, _, _)
CapacitorLoop(analysis, texts, i) ==
    IF i > Len(texts) THEN analysis
    ELSE CapacitorLoop(CapacitorStep(analysis,
                                     exec(capacitancePattern, texts[i]),
                                     exec(voltagePattern, texts[i])),
                       texts, i + 1)

analyzeCapacitor(tds) ==
    CapacitorLoop([estimatedValue |-> << >>, voltage |-> << >>], LineTexts(tds), 1)

manufacturerPrefixes == << "74", "CD", "LM", "TL", "NE", "MC", "SN", "AD", "MAX" >>

\* manufacturerPrefixes.includes(prefix)
IsManufacturerPrefix(prefix) ==
    \E m \in 1..Len(manufacturerPrefixes) : manufacturerPrefixes[m] = prefix

\* the body of the part-number branch of analyzeIC
ICPart(analysis, trimmed, prefix) ==
    [ partNumbers |-> Append(analysis.partNumbers, trimmed),
      manufacturers |->
          IF IsManufacturerPrefix(prefix)
          THEN Append(analysis.manufacturers, "Likely " \o prefix \o " series")
          ELSE analysis.manufacturers ]

\* fault injection: the prefix taken from the trimmed text
ICStep_TrimmedPrefix(analysis, text) ==
    IF exec(partNumberPattern, trim(text)).found
    THEN ICPart(analysis, trim(text), toUpperCase(substring0(trim(text), 2)))
    ELSE analysis

\* one iteration of the loop of analyzeIC
ICStep(analysis, text) ==
    IF exec(partNumberPattern, trim(text)).found
    THEN ICPart(analysis, trim(text), toUpperCase(substring0(text, 2)))
    ELSE analysis

RECURSIVE ICLoop(_, _, _)
ICLoop(analysis, texts, i) ==
    IF i > Len(texts) THEN analysis
    ELSE ICLoop(ICStep(analysis, texts[i]), texts, i + 1)

analyzeIC(tds) ==
    ICLoop([partNumbers |-> << >>, manufacturers |-> << >>], LineTexts(tds), 1)

(***************************************************************************)
(* interpretResults.  The analysis object is a function from the property  *)
(* names it holds ("resistor", "capacitor", "ic") to their values; the     *)
(* empty object is the function with the empty domain.                     *)
(***************************************************************************)
EmptyObject == [k \in {} |-> << >>]

\* fault injection: the IC extractor run for every type that is neither
\* resistor nor capacitor
ExtractDetails_DanglingElse(type, ls, tds) ==
    IF type = "resistor" THEN [k \in {"resistor"} |-> analyzeResistor(ls, tds)]
    ELSE IF type = "capacitor" THEN [k \in {"capacitor"} |-> analyzeCapacitor(tds)]
    ELSE [k \in {"ic"} |-> analyzeIC(tds)]

\* the branch on componentData.type that fills componentData.analysis
ExtractDetails(type, ls, tds) ==
    IF type = "resistor" THEN [k \in {"resistor"} |-> analyzeResistor(ls, tds)]
    ELSE IF type = "capacitor" THEN [k \in {"capacitor"} |-> analyzeCapacitor(tds)]
    ELSE IF type = "integrated_circuit" THEN [k \in {"ic"} |-> analyzeIC(tds)]
    ELSE EmptyObject

\* fault injection: the top entry's confidence is not copied
AdoptTop_ConfidenceNotCopied(componentTypes) ==
    IF Len(componentTypes) > 0
    THEN [ type |-> componentTypes[1].type,
           confidence |-> 0,
           possibleTypes |-> componentTypes ]
    ELSE [ type |-> "unknown", confidence |-> 0, possibleTypes |-> << >> ]

\* fault injection: the default type is ComponentTypes.OTHER
AdoptTop_DefaultOther(componentTypes) ==
    IF Len(componentTypes) > 0
    THEN [ type |-> componentTypes[1].type,
           confidence |-> componentTypes[1].confidence,
           possibleTypes |-> componentTypes ]
    ELSE [ type |-> "other", confidence |-> 0, possibleTypes |-> << >> ]

\* the defaults of componentData, overwritten from componentTypes[0] when
\* identifyComponentType returned at least one match
AdoptTop(componentTypes) ==
    IF Len(componentTypes) > 0
    THEN [ type |-> componentTypes[1].type,
           confidence |-> componentTypes[1].confidence,
           possibleTypes |-> componentTypes ]
    ELSE [ type |-> "unknown", confidence |-> 0, possibleTypes |-> << >> ]

\* fault injection: the Type filter is dropped
LineDetections_Unfiltered(tds) == tds

\* textDetections.filter(t => t.Type === 'LINE')
LineDetections(tds) == SelectSeq(tds, LAMBDA t : t.Type = "LINE")

\* componentData, given the adopted classification and the LINE detections
ComponentData(top, ls, lines, tds) ==
    [ confidence |-> top.confidence,
      type |-> top.type,
      possibleTypes |-> top.possibleTypes,
      detectedLabels |->
          [i \in 1..Len(ls) |-> [name |-> ls[i].Name, confidence |-> ls[i].Confidence]],
      detectedText |->
          [i \in 1..Len(lines) |->
              [text |-> lines[i].DetectedText, confidence |-> lines[i].Confidence]],
      analysis |-> ExtractDetails(top.type, ls, tds) ]

interpretResults(ls, tds) ==
    ComponentData(AdoptTop(identifyComponentType(ls)), ls, LineDetections(tds), tds)

(***************************************************************************)
(* generateIdentificationSummary: the text a result is reported with.      *)
(***************************************************************************)
\* the decimal digits of a natural number
RECURSIVE NumberToString(_)
NumberToString(n) ==
    IF n < 10 THEN CharAt("0123456789", n + 1)
    ELSE NumberToString(n \div 10) \o CharAt("0123456789", (n % 10) + 1)

\* the tenths and the digits of them
FixedDigits(tenths) ==
    NumberToString(tenths \div 10) \o "." \o NumberToString(tenths % 10)

\* fault injection: the decimal is cut off, not rounded
toFixed1_Truncated(x) == FixedDigits((10 * x) \div 4)

\* x.toFixed(1) of a non-negative x quarters: the number of tenths nearest
\* to x, the larger one when two are equally near, written with one decimal
toFixed1(x) == FixedDigits((10 * x + 2) \div 4)

\* Array.prototype.join
RECURSIVE join(_, _)
join(parts, separator) ==
    IF Len(parts) = 0 THEN ""
    ELSE IF Len(parts) = 1 THEN parts[1]
    ELSE parts[1] \o separator \o join(Tail(parts), separator)

\* a field that JavaScript takes as true: neither null nor the empty string
Truthy(field) == field # << >> /\ field[1] # ""

\* fault injection: the color bands are reported beside the estimated value
ResistorLines_Both(resistor) ==
    (IF Truthy(resistor.estimatedValue)
     THEN "\nEstimated value: " \o resistor.estimatedValue[1]
     ELSE "")
    \o (IF resistor.hasColorBands
        THEN "\nColor bands detected: " \o join(resistor.detectedColors, ", ")
        ELSE "")

\* what the resistor branch appends to the summary
ResistorLines(resistor) ==
    IF Truthy(resistor.estimatedValue)
    THEN "\nEstimated value: " \o resistor.estimatedValue[1]
    ELSE IF resistor.hasColorBands
    THEN "\nColor bands detected: " \o join(resistor.detectedColors, ", ")
    ELSE ""

\* what the capacitor branch appends to the summary
CapacitorLines(capacitor) ==
    (IF Truthy(capacitor.estimatedValue)
     THEN "\nEstimated value: " \o capacitor.estimatedValue[1]
     ELSE "")
    \o (IF Truthy(capacitor.voltage)
        THEN "\nRated voltage: " \o capacitor.voltage[1]
        ELSE "")

\* what the integrated-circuit branch appends to the summary
ICLines(ic) ==
    IF Len(ic.partNumbers) > 0
    THEN "\nDetected part numbers: " \o join(ic.partNumbers, ", ")
    ELSE ""

\* the branch on type and on the presence of the type's analysis
AnalysisLines(type, analysis) ==
    IF type = "resistor" /\ "resistor" \in DOMAIN analysis
    THEN ResistorLines(analysis["resistor"])
    ELSE IF type = "capacitor" /\ "capacitor" \in DOMAIN analysis
    THEN CapacitorLines(analysis["capacitor"])
    ELSE IF type = "integrated_circuit" /\ "ic" \in DOMAIN analysis
    THEN ICLines(analysis["ic"])
    ELSE ""

generateIdentificationSummary(analysisResult) ==
    "Identified as: " \o analysisResult.type
        \o " (" \o toFixed1(analysisResult.confidence) \o "% confidence)"
        \o AnalysisLines(analysisResult.type, analysisResult.analysis)

(***************************************************************************)
(* Inputs.  A label is a Rekognition Label {Name, Confidence}; a text      *)
(* detection is a TextDetection {DetectedText, Type, Confidence}.          *)
(***************************************************************************)
Label(name, confidence) == [Name |-> name, Confidence |-> confidence]

Line(text) == [DetectedText |-> text, Type |-> "LINE", Confidence |-> 396]

Word(text) == [DetectedText |-> text, Type |-> "WORD", Confidence |-> 392]

\* the labels the classifier is called with
Labels ==
    { Label("Resistor", 360), Label("Red Band", 280), Label("Brown", 360),
      Label("Ceramic", 360), Label("Chip", 280), Label("LED", 360),
      Label("Mosfet", 280), Label("Header Pin", 280), Label("Coil", 360),
      Label("Electronic Component", 280) }

\* the labels analyzeResistor is called with
ResistorLabels ==
    { Label("Red Band", 280), Label("Brown", 360), Label("Resistor", 360) }

\* the text detections the text-only extractors are called with
Detections ==
    { Line("10uF"), Line("16V"), Line("22uF"),
      Line("4.7" \o MicroSign \o "F 25v"), Line("LM358"),
      Line(" LM358"), Line("LM-1"), Word("35V") }

\* the text detections analyzeResistor is called with
ResistorDetections ==
    { Line("100" \o Omega), Line("1k" \o Omega), Line("4K7"), Word("220R") }

\* the labels interpretResults is called with
InterpretLabels ==
    { Label("Resistor", 360), Label("Red Band", 280), Label("Brown", 360),
      Label("Ceramic", 360), Label("Chip", 280), Label("LED", 360) }

\* the text detections interpretResults is called with
InterpretDetections ==
    { Line("4.7 kohm"), Line("10uF 16V"), Line("LM358"), Word("1k" \o Omega) }

\* the labels and text detections of a result that is reported
ReportLabels ==
    { Label("Red Band", 283), Label("Brown", 362), Label("Ceramic", 360),
      Label("Chip", 281), Label("LED", 361) }

ReportDetections ==
    { Line("4.7 kohm"), Line("10uF 16V"), Line("LM358"), Word("LM358") }

\* labels whose names hold keywords of several types
OverlapLabels ==
    { Label("Electronic Component", 283), Label("Electrolytic Capacitor", 361),
      Label("Ceramic Disc", 361), Label("Chip", 362), Label("Resistor", 361),
      Label("LED", 283) }

\* the sequences over S of length at most n
SeqsUpTo(S, n) == UNION {[1..k -> S] : k \in 0..n}

(***************************************************************************)
(* The analyzer is stateless: a caller invokes one of its operations with  *)
(* its arguments and receives the value it returns.                        *)
(***************************************************************************)
Init ==
    /\ pc = "idle"
    /\ op = "none"
    /\ labels = << >>
    /\ textDetections = << >>
    /\ ret = << >>
    /\ summary = << >>
    /\ first = << >>
    /\ imageSource = << >>
    /\ labelsFetch = [state |-> "none", value |-> << >>, error |-> "", at |-> 0]
    /\ textFetch = [state |-> "none", value |-> << >>, error |-> "", at |-> 0]
    /\ interpretCalls = 0

CallIdentifyComponentType ==
    /\ pc = "idle"
    /\ \E ls \in SeqsUpTo(Labels, MaxLabels) :
          /\ labels' = ls
          /\ ret' = identifyComponentType(ls)
    /\ op' = "identifyComponentType"
    /\ pc' = "returned"
    /\ UNCHANGED << textDetections, summary, first, fetchVars >>

CallAnalyzeResistor ==
    /\ pc = "idle"
    /\ \E ls \in SeqsUpTo(ResistorLabels, MaxResistorLabels),
          tds \in SeqsUpTo(ResistorDetections, MaxResistorTexts) :
          /\ labels' = ls
          /\ textDetections' = tds
          /\ ret' = analyzeResistor(ls, tds)
    /\ op' = "analyzeResistor"
    /\ pc' = "returned"
    /\ UNCHANGED << summary, first, fetchVars >>

CallAnalyzeCapacitor ==
    /\ pc = "idle"
    /\ \E tds \in SeqsUpTo(Detections, MaxTexts) :
          /\ textDetections' = tds
          /\ ret' = analyzeCapacitor(tds)
    /\ op' = "analyzeCapacitor"
    /\ pc' = "returned"
    /\ UNCHANGED << labels, summary, first, fetchVars >>

CallAnalyzeIC ==
    /\ pc = "idle"
    /\ \E tds \in SeqsUpTo(Detections, MaxTexts) :
          /\ textDetections' = tds
          /\ ret' = analyzeIC(tds)
    /\ op' = "analyzeIC"
    /\ pc' = "returned"
    /\ UNCHANGED << labels, summary, first, fetchVars >>

CallInterpretResults ==
    /\ pc = "idle"
    /\ \E ls \in SeqsUpTo(InterpretLabels, MaxInterpretLabels),
          tds \in SeqsUpTo(InterpretDetections, MaxInterpretTexts) :
          /\ labels' = ls
          /\ textDetections' = tds
          /\ ret' = interpretResults(ls, tds)
    /\ op' = "interpretResults"
    /\ pc' = "returned"
    /\ UNCHANGED << summary, first, fetchVars >>

\* the caller takes the returned value; the analyzer keeps nothing of the call
Return ==
    /\ pc = "returned"
    /\ pc' = "idle"
    /\ op' = "none"
    /\ labels' = << >>
    /\ textDetections' = << >>
    /\ ret' = << >>
    /\ summary' = << >>
    /\ UNCHANGED << first, fetchVars >>

Next ==
    \/ CallIdentifyComponentType
    \/ CallAnalyzeResistor
    \/ CallAnalyzeCapacitor
    \/ CallAnalyzeIC
    \/ CallInterpretResults
    \/ Return

Spec == Init /\ [][Next]_vars

(***************************************************************************)
(* Reporting: a caller interprets the labels and text detections of an     *)
(* image and has the result summarised.                                    *)
(***************************************************************************)
InterpretForReport ==
    /\ pc = "idle"
    /\ \E ls \in SeqsUpTo(ReportLabels, MaxReportLabels),
          tds \in SeqsUpTo(ReportDetections, MaxReportTexts) :
          /\ labels' = ls
          /\ textDetections' = tds
          /\ ret' = interpretResults(ls, tds)
    /\ op' = "interpretResults"
    /\ pc' = "returned"
    /\ UNCHANGED << summary, first, fetchVars >>

\* the result just returned is passed to generateIdentificationSummary
CallGenerateIdentificationSummary ==
    /\ pc = "returned"
    /\ op = "interpretResults"
    /\ summary' = << generateIdentificationSummary(ret) >>
    /\ op' = "generateIdentificationSummary"
    /\ UNCHANGED << pc, labels, textDetections, ret, first, fetchVars >>

NextReport ==
    \/ InterpretForReport
    \/ CallGenerateIdentificationSummary
    \/ Return

SpecReport == Init /\ [][NextReport]_vars

(***************************************************************************)
(* Repeated invocation: a caller keeps its label and text-detection arrays *)
(* and invokes the analyzer on them again and again.  An invocation could  *)
(* reach a later one through the arrays only: the analyzer assigns none of *)
(* its fields after construction, and the keyword table and the patterns   *)
(* are created anew by every invocation.                                   *)
(***************************************************************************)
\* fault injection: the labels themselves are sorted, in place
LabelsLeft_SortedInPlace(ls) ==
    LET sorted == sort([i \in 1..Len(ls) |->
                          [ type |-> "", confidence |-> ls[i].Confidence,
                            matchedLabel |-> ls[i].Name ]])
    IN  [i \in 1..Len(ls) |->
            Label(sorted[i].matchedLabel, sorted[i].confidence)]

\* the caller's label array after an invocation: labels is read by
\* labels.map, for ... of and labels.filter; the only operation in place,
\* sort, is applied to the array matches that identifyComponentType built
LabelsLeft(ls) == ls

\* the caller's text-detection array after an invocation: textDetections
\* is read by textDetections.filter
DetectionsLeft(tds) == tds

\* the first invocation of interpretResults, on arrays the caller made
InterpretFirst ==
    /\ pc = "idle"
    /\ first = << >>
    /\ \E ls \in SeqsUpTo(ReportLabels, MaxReportLabels),
          tds \in SeqsUpTo(InterpretDetections, MaxInterpretTexts) :
          /\ ret' = interpretResults(ls, tds)
          /\ labels' = LabelsLeft(ls)
          /\ textDetections' = DetectionsLeft(tds)
          /\ first' = << [ labels |-> ls, textDetections |-> tds,
                           result |-> ret', between |-> FALSE,
                           again |-> FALSE ] >>
    /\ op' = "interpretResults"
    /\ pc' = "returned"
    /\ UNCHANGED << summary, fetchVars >>

\* the caller takes the returned value and keeps its arrays
KeepArrays ==
    /\ pc = "returned"
    /\ first # << >>
    /\ pc' = "idle"
    /\ op' = "none"
    /\ ret' = << >>
    /\ UNCHANGED << labels, textDetections, summary, first, fetchVars >>

\* another operation is invoked on the caller's arrays
InvokeBetween(name, result) ==
    /\ pc = "idle"
    /\ first # << >>
    /\ ret' = result
    /\ labels' = LabelsLeft(labels)
    /\ textDetections' = DetectionsLeft(textDetections)
    /\ first' = << [first[1] EXCEPT !.between = TRUE] >>
    /\ op' = name
    /\ pc' = "returned"
    /\ UNCHANGED << summary, fetchVars >>

IdentifyComponentTypeBetween ==
    InvokeBetween("identifyComponentType", identifyComponentType(labels))

AnalyzeResistorBetween ==
    InvokeBetween("analyzeResistor", analyzeResistor(labels, textDetections))

AnalyzeCapacitorBetween ==
    InvokeBetween("analyzeCapacitor", analyzeCapacitor(textDetections))

AnalyzeICBetween ==
    InvokeBetween("analyzeIC", analyzeIC(textDetections))

\* interpretResults is invoked again, on the arrays as they are now
InterpretAgain ==
    /\ pc = "idle"
    /\ first # << >>
    /\ ret' = interpretResults(labels, textDetections)
    /\ labels' = LabelsLeft(labels)
    /\ textDetections' = DetectionsLeft(textDetections)
    /\ first' = << [first[1] EXCEPT !.again = TRUE] >>
    /\ op' = "interpretResults"
    /\ pc' = "returned"
    /\ UNCHANGED << summary, fetchVars >>

NextRepeated ==
    \/ InterpretFirst
    \/ KeepArrays
    \/ IdentifyComponentTypeBetween
    \/ AnalyzeResistorBetween
    \/ AnalyzeCapacitorBetween
    \/ AnalyzeICBetween
    \/ InterpretAgain

SpecRepeated == Init /\ [][NextRepeated]_vars

(***************************************************************************)
(* analyzeComponent: detectLabels and detectText are started one after the *)
(* other, each builds its request and awaits the service, and the call     *)
(* goes on when Promise.all of the two promises has settled.               *)
(***************************************************************************)
\* imageSource[name], << >> when undefined
Property(object, name) ==
    IF name \in DOMAIN object THEN << object[name] >> ELSE << >>

\* the Image parameter, or what is thrown
buildImageParam(source) ==
    IF Truthy(Property(source, "bucket")) /\ Truthy(Property(source, "key"))
    THEN [S3Object |-> [Bucket |-> source["bucket"], Name |-> source["key"]]]
    ELSE IF Truthy(Property(source, "bytes"))
    THEN [Bytes |-> source["bytes"]]
    ELSE [thrown |-> "Invalid image source. Provide either S3 object or bytes."]

\* the promise of detectLabels / detectText once it has run to its await:
\* rejected when buildImageParam threw, pending on the service otherwise
Requested(param) ==
    IF "thrown" \in DOMAIN param
    THEN [state |-> "rejected", value |-> << >>, error |-> param["thrown"], at |-> 0]
    ELSE [state |-> "pending", value |-> << >>, error |-> "", at |-> 0]

NotRequested == [state |-> "none", value |-> << >>, error |-> "", at |-> 0]

\* result.Labels || [], result.TextDetections || []
FieldOrEmpty(result, name) ==
    IF name \in DOMAIN result THEN result[name] ELSE << >>

\* the place of a completion among the completions of the service
SettledAt(other) == IF other.at = 0 THEN 1 ELSE other.at + 1

Fulfilled(value, other) ==
    [state |-> "fulfilled", value |-> value, error |-> "", at |-> SettledAt(other)]

Rejected(error, other) ==
    [state |-> "rejected", value |-> << >>, error |-> error, at |-> SettledAt(other)]

\* fault injection: only the first promise is awaited
AllFulfilled_FirstOnly(promises) == promises[1].state = "fulfilled"

\* Promise.all is fulfilled when every promise is
AllFulfilled(promises) ==
    \A i \in 1..Len(promises) : promises[i].state = "fulfilled"

\* Promise.all is rejected as soon as one promise is
AnyRejected(promises) ==
    \E i \in 1..Len(promises) : promises[i].state = "rejected"

\* the string of the README's usage
ReadmeSource == [string |-> "uploads/component.jpg"]

\* the arguments analyzeComponent is called with: an S3 object, bytes, the
\* README's key string, and an object without key
ImageSources ==
    { [bucket |-> "circuit-images", key |-> "uploads/component.jpg"],
      [bytes |-> "JFIF"],
      ReadmeSource,
      [bucket |-> "circuit-images"] }

\* the results the service sends for DetectLabels and DetectText
LabelResults ==
    { [Labels |-> ls] : ls \in SeqsUpTo(ReportLabels, MaxFetchedLabels) }
        \cup { EmptyObject }

TextResults ==
    { [TextDetections |-> tds] :
          tds \in SeqsUpTo(InterpretDetections, MaxFetchedTexts) }
        \cup { EmptyObject }

CallAnalyzeComponent ==
    /\ pc = "idle"
    /\ \E source \in ImageSources :
          /\ imageSource' = source
          /\ labelsFetch' = Requested(buildImageParam(source))
          /\ textFetch' = Requested(buildImageParam(source))
    /\ interpretCalls' = 0
    /\ op' = "analyzeComponent"
    /\ pc' = "awaiting"
    /\ UNCHANGED << labels, textDetections, ret, summary, first >>

\* client.send(new DetectLabelsCommand(params)) is fulfilled
LabelsFetched ==
    /\ labelsFetch.state = "pending"
    /\ \E result \in LabelResults :
          labelsFetch' = Fulfilled(FieldOrEmpty(result, "Labels"), textFetch)
    /\ UNCHANGED << pc, op, labels, textDetections, ret, summary, first,
                    imageSource, textFetch, interpretCalls >>

\* client.send(new DetectLabelsCommand(params)) is rejected
LabelsFetchFailed ==
    /\ labelsFetch.state = "pending"
    /\ labelsFetch' = Rejected("DetectLabels failed", textFetch)
    /\ UNCHANGED << pc, op, labels, textDetections, ret, summary, first,
                    imageSource, textFetch, interpretCalls >>

\* client.send(new DetectTextCommand(params)) is fulfilled
TextFetched ==
    /\ textFetch.state = "pending"
    /\ \E result \in TextResults :
          textFetch' = Fulfilled(FieldOrEmpty(result, "TextDetections"), labelsFetch)
    /\ UNCHANGED << pc, op, labels, textDetections, ret, summary, first,
                    imageSource, labelsFetch, interpretCalls >>

\* client.send(new DetectTextCommand(params)) is rejected
TextFetchFailed ==
    /\ textFetch.state = "pending"
    /\ textFetch' = Rejected("DetectText failed", labelsFetch)
    /\ UNCHANGED << pc, op, labels, textDetections, ret, summary, first,
                    imageSource, labelsFetch, interpretCalls >>

\* the await of Promise.all goes on: [labels, text] are the two values and
\* interpretResults(labels, text) is returned
InterpretFetched ==
    /\ pc = "awaiting"
    /\ AllFulfilled(<< labelsFetch, textFetch >>)
    /\ labels' = labelsFetch.value
    /\ textDetections' = textFetch.value
    /\ ret' = interpretResults(labelsFetch.value, textFetch.value)
    /\ interpretCalls' = interpretCalls + 1
    /\ pc' = "returned"
    /\ UNCHANGED << op, summary, first, imageSource, labelsFetch, textFetch >>

\* the await of Promise.all throws: analyzeComponent is rejected
AnalysisRejected ==
    /\ pc = "awaiting"
    /\ AnyRejected(<< labelsFetch, textFetch >>)
    /\ pc' = "rejected"
    /\ UNCHANGED << op, labels, textDetections, ret, summary, first, fetchVars >>

\* the caller has the outcome, and no request is left with the service
Settled ==
    /\ pc \in {"returned", "rejected"}
    /\ op = "analyzeComponent"
    /\ labelsFetch.state # "pending"
    /\ textFetch.state # "pending"
    /\ pc' = "idle"
    /\ op' = "none"
    /\ labels' = << >>
    /\ textDetections' = << >>
    /\ ret' = << >>
    /\ imageSource' = << >>
    /\ labelsFetch' = NotRequested
    /\ textFetch' = NotRequested
    /\ interpretCalls' = 0
    /\ UNCHANGED << summary, first >>

NextAnalyze ==
    \/ CallAnalyzeComponent
    \/ LabelsFetched
    \/ LabelsFetchFailed
    \/ TextFetched
    \/ TextFetchFailed
    \/ InterpretFetched
    \/ AnalysisRejected
    \/ Settled

SpecAnalyze == Init /\ [][NextAnalyze]_vars

(***************************************************************************)
(* Classification of labels that hold keywords of several types.           *)
(***************************************************************************)
ClassifyOverlapping ==
    /\ pc = "idle"
    /\ \E ls \in SeqsUpTo(OverlapLabels, MaxOverlapLabels) :
          /\ labels' = ls
          /\ ret' = identifyComponentType(ls)
    /\ op' = "identifyComponentType"
    /\ pc' = "returned"
    /\ UNCHANGED << textDetections, summary, first, fetchVars >>

NextOverlap ==
    \/ ClassifyOverlapping
    \/ Return

SpecOverlap == Init /\ [][NextOverlap]_vars

(***************************************************************************)
(* Properties.                                                             *)
(***************************************************************************)
Returned(name) == pc = "returned" /\ op = name

\* a classification has been returned, by identifyComponentType itself or
\* inside the result of interpretResults
Classified ==
    Returned("identifyComponentType") \/ Returned("interpretResults")

PossibleTypes == IF op = "interpretResults" THEN ret.possibleTypes ELSE ret

\* a resistor / capacitor / IC analysis has been returned, by the extractor
\* itself or inside the result of interpretResults
HasAnalysis(extractor, key) ==
    \/ Returned(extractor)
    \/ Returned("interpretResults") /\ key \in DOMAIN ret.analysis

AnalysisOf(key) == IF op = "interpretResults" THEN ret.analysis[key] ELSE ret

MinOf(S) == CHOOSE x \in S : \A y \in S : x <= y

MaxOf(S) == CHOOSE x \in S : \A y \in S : x >= y

\* the texts of the LINE entries of the call's text detections, in input order
InputLines == LineTexts(textDetections)

\* C1: the result of interpretResults has the type and confidence of
\* possibleTypes[0] when possibleTypes is non-empty, and otherwise type
\* "unknown" and confidence 0.
C1_TopTypeAdopted ==
    Returned("interpretResults") =>
        IF Len(ret.possibleTypes) > 0
        THEN /\ ret.type = ret.possibleTypes[1].type
             /\ ret.confidence = ret.possibleTypes[1].confidence
        ELSE /\ ret.type = "unknown"
             /\ ret.confidence = 0

\* interpretResults returned with several candidates of different confidence
C1_Witness ==
    /\ Returned("interpretResults")
    /\ Len(ret.possibleTypes) >= 2
    /\ ret.possibleTypes[1].confidence > ret.possibleTypes[2].confidence
    /\ ret.type = ret.possibleTypes[1].type
    /\ ret.confidence > 0

\* C2: possibleTypes, as returned by identifyComponentType and as stored by
\* interpretResults, is non-increasing in confidence.
C2_SortedByConfidence ==
    Classified =>
        \A i \in 1..(Len(PossibleTypes) - 1) :
            PossibleTypes[i].confidence >= PossibleTypes[i + 1].confidence

\* a classification whose matches were pushed in another order than returned
C2_Witness ==
    /\ Returned("identifyComponentType")
    /\ Len(ret) >= 3
    /\ ret[1].confidence > ret[Len(ret)].confidence
    /\ ret # CollectMatches(labels, 1)

\* C3: each type has at most one match, and the match of a type carries the
\* confidence and name of the first label, in input order, whose lower-cased
\* name contains a keyword of the type.
C3_FirstLabelPerType ==
    Classified =>
        /\ \A j \in DOMAIN PossibleTypes : PossibleTypes[j].type \in DOMAIN typeKeywords
        /\ \A t \in DOMAIN typeKeywords :
              LET matching == {i \in DOMAIN labels : LabelMatches(t, labels[i])}
                  hits == {j \in DOMAIN PossibleTypes : PossibleTypes[j].type = t}
              IN  /\ Cardinality(hits) <= 1
                  /\ \A j \in hits :
                        /\ matching # {}
                        /\ PossibleTypes[j].confidence = labels[MinOf(matching)].Confidence
                        /\ PossibleTypes[j].matchedLabel = labels[MinOf(matching)].Name

\* a later label matches the same type with a higher confidence and is not used
C3_Witness ==
    /\ Returned("identifyComponentType")
    /\ \E t \in DOMAIN typeKeywords :
          \E i, k \in DOMAIN labels :
              /\ i < k
              /\ LabelMatches(t, labels[i])
              /\ LabelMatches(t, labels[k])
              /\ labels[k].Confidence > labels[i].Confidence
              /\ \E j \in DOMAIN ret :
                    /\ ret[j].type = t
                    /\ ret[j].matchedLabel = labels[i].Name
                    /\ ret[j].confidence = labels[i].Confidence

\* the type-iteration order the tie-breaking is stated in
TieOrder ==
    << "resistor", "capacitor", "diode", "transistor",
       "integrated_circuit", "connector", "inductor" >>

TieRank(t) == CHOOSE k \in DOMAIN TieOrder : TieOrder[k] = t

\* C4: matches of equal confidence stand in possibleTypes in the type-iteration
\* order, so the adopted top type is the earliest type in that order among the
\* candidates of the top confidence.
C4_TiesKeepTypeOrder ==
    Classified =>
        /\ \A i, j \in DOMAIN PossibleTypes :
              (i < j /\ PossibleTypes[i].confidence = PossibleTypes[j].confidence)
                  => TieRank(PossibleTypes[i].type) < TieRank(PossibleTypes[j].type)
        /\ Returned("interpretResults") =>
              \A j \in DOMAIN ret.possibleTypes :
                  ret.possibleTypes[j].confidence = ret.confidence
                      => TieRank(ret.type) <= TieRank(ret.possibleTypes[j].type)

\* two tied matches returned behind a match of a later-pushed type
C4_Witness ==
    /\ Returned("identifyComponentType")
    /\ Len(ret) >= 3
    /\ ret[1].confidence > ret[2].confidence
    /\ ret[2].confidence = ret[3].confidence
    /\ TieRank(ret[1].type) > TieRank(ret[2].type)
    /\ TieRank(ret[1].type) < TieRank(ret[3].type)

\* the value analyzeResistor stores for a matching line
ResistanceOf(text) ==
    exec(resistancePattern, text).g[1] \o exec(resistancePattern, text).g[2] \o Omega

\* C5: analyzeResistor sets estimatedValue from the first LINE text, in input
\* order, that matches the resistance pattern, and leaves it null when no LINE
\* text matches.
C5_FirstResistanceWins ==
    HasAnalysis("analyzeResistor", "resistor") =>
        LET matching ==
                {i \in DOMAIN InputLines : exec(resistancePattern, InputLines[i]).found}
        IN  AnalysisOf("resistor").estimatedValue =
                IF matching = {} THEN << >>
                ELSE << ResistanceOf(InputLines[MinOf(matching)]) >>

\* lines ["100Ω", "1kΩ"] yield "100Ω"
C5_Witness ==
    /\ Returned("analyzeResistor")
    /\ InputLines = << "100" \o Omega, "1k" \o Omega >>
    /\ ret.estimatedValue = << "100" \o Omega >>

\* the values analyzeCapacitor stores for a matching line
CapacitanceOf(text) ==
    exec(capacitancePattern, text).g[1] \o exec(capacitancePattern, text).g[2]

VoltageOf(text) == exec(voltagePattern, text).g[1] \o "V"

\* C6: analyzeCapacitor takes estimatedValue from the last LINE text matching
\* the capacitance pattern and voltage from the last LINE text matching the
\* voltage pattern, each whatever the other pattern matches.
C6_LastCapacitorMatchWins ==
    HasAnalysis("analyzeCapacitor", "capacitor") =>
        LET caps == {i \in DOMAIN InputLines :
                        exec(capacitancePattern, InputLines[i]).found}
            volts == {i \in DOMAIN InputLines :
                        exec(voltagePattern, InputLines[i]).found}
        IN  /\ AnalysisOf("capacitor").estimatedValue =
                  IF caps = {} THEN << >>
                  ELSE << CapacitanceOf(InputLines[MaxOf(caps)]) >>
            /\ AnalysisOf("capacitor").voltage =
                  IF volts = {} THEN << >>
                  ELSE << VoltageOf(InputLines[MaxOf(volts)]) >>

\* lines ["10uF", "16V", "22uF"] yield estimatedValue "22uF" and voltage "16V"
C6_Witness ==
    /\ Returned("analyzeCapacitor")
    /\ InputLines = << "10uF", "16V", "22uF" >>
    /\ ret.estimatedValue = << "22uF" >>
    /\ ret.voltage = << "16V" >>

\* the ten color names
ColorNames ==
    { "black", "brown", "red", "orange", "yellow",
      "green", "blue", "violet", "grey", "white" }

\* C7: analyzeResistor sets hasColorBands exactly when at least two labels have
\* a lower-cased name containing a color name; then detectedColors is the
\* original names of those labels in label order and the note is set; otherwise
\* detectedColors is empty and no note is set.
C7_ColorBands ==
    HasAnalysis("analyzeResistor", "resistor") =>
        LET colored == {i \in DOMAIN labels :
                           \E c \in ColorNames : includes(toLowerCase(labels[i].Name), c)}
            a == AnalysisOf("resistor")
        IN  /\ a.hasColorBands <=> Cardinality(colored) >= 2
            /\ a.hasColorBands =>
                  /\ Len(a.detectedColors) = Cardinality(colored)
                  /\ \A i \in colored :
                        a.detectedColors[Cardinality({j \in colored : j <= i})]
                            = labels[i].Name
                  /\ a.note = << "Resistor identified with visible color bands" >>
            /\ ~a.hasColorBands =>
                  /\ a.detectedColors = << >>
                  /\ a.note = << >>

\* two color labels with a label of no color between them
C7_Witness ==
    /\ Returned("analyzeResistor")
    /\ Len(labels) = 3
    /\ ~IsColorLabel(labels[2])
    /\ ret.hasColorBands
    /\ ret.detectedColors = << labels[1].Name, labels[3].Name >>

\* the first two characters of the line as it stands, upper-cased, are in the
\* manufacturer-prefix list
HasListedPrefix(text) ==
    toUpperCase(substring0(text, 2)) \in
        {"74", "CD", "LM", "TL", "NE", "MC", "SN", "AD", "MAX"}

\* the trimmed line matches the part-number pattern
IsPartNumber(text) == exec(partNumberPattern, trim(text)).found

AdvisoryOf(text) == "Likely " \o toUpperCase(substring0(text, 2)) \o " series"

\* the images under Image of the elements of seq that satisfy Keep, in order
Kept(seq, Keep(_), Image(_)) ==
    LET kept == SelectSeq(seq, Keep)
    IN  [i \in 1..Len(kept) |-> Image(kept[i])]

\* C8, as claimed: every LINE text with a listed prefix appends an advisory to
\* manufacturers whether or not it matches the part-number pattern, and every
\* LINE text matching the part-number pattern is appended to partNumbers
\* whether or not its prefix is listed; duplicates are kept.
C8_ChecksIndependent ==
    HasAnalysis("analyzeIC", "ic") =>
        /\ AnalysisOf("ic").partNumbers = Kept(InputLines, IsPartNumber, trim)
        /\ AnalysisOf("ic").manufacturers = Kept(InputLines, HasListedPrefix, AdvisoryOf)

IsPartNumberWithListedPrefix(text) == IsPartNumber(text) /\ HasListedPrefix(text)

\* C8, amended: every LINE text whose trimmed form matches the part-number
\* pattern is appended, trimmed, to partNumbers whether or not its prefix is
\* listed; an advisory is appended to manufacturers only for such a line, when
\* the first two characters of the untrimmed line, upper-cased, are listed; a
\* line that does not match the part-number pattern adds to neither list;
\* duplicates are kept in both lists.
C8_PrefixCheckedOnPartNumbers ==
    HasAnalysis("analyzeIC", "ic") =>
        /\ AnalysisOf("ic").partNumbers = Kept(InputLines, IsPartNumber, trim)
        /\ AnalysisOf("ic").manufacturers =
              Kept(InputLines, IsPartNumberWithListedPrefix, AdvisoryOf)

\* a line with a listed prefix that is no part number adds no advisory, and a
\* part number seen twice is listed twice, with its advisory
C8_Witness ==
    /\ Returned("analyzeIC")
    /\ Len(InputLines) = 3
    /\ HasListedPrefix(InputLines[1])
    /\ ~IsPartNumber(InputLines[1])
    /\ InputLines[2] = InputLines[3]
    /\ Len(ret.partNumbers) = 2
    /\ ret.partNumbers[1] = ret.partNumbers[2]
    /\ Len(ret.manufacturers) = 2

\* C9: the analysis of interpretResults holds the entry of the extractor of
\* the adopted top type and nothing else: "resistor" for resistor, "capacitor"
\* for capacitor, "ic" for integrated_circuit, nothing for any other type,
\* whatever the runner-up types are.
C9_OneExtractorByTopType ==
    Returned("interpretResults") =>
        DOMAIN ret.analysis =
            IF ret.type = "resistor" THEN {"resistor"}
            ELSE IF ret.type = "capacitor" THEN {"capacitor"}
            ELSE IF ret.type = "integrated_circuit" THEN {"ic"}
            ELSE {}

\* the top type has no extractor, a runner-up has one, and there is a LINE text
C9_Witness ==
    /\ Returned("interpretResults")
    /\ ret.type \in {"diode", "transistor", "connector", "inductor"}
    /\ \E j \in DOMAIN ret.possibleTypes :
          ret.possibleTypes[j].type \in {"resistor", "capacitor", "integrated_circuit"}
    /\ InputLines # << >>
    /\ DOMAIN ret.analysis = {}

\* C10: interpretResults called with no label returns, whatever the text
\* detections, type "unknown", confidence 0, no possibleTypes and an empty
\* analysis.
C10_NoLabelsUnknown ==
    (pc = "returned" /\ op = "interpretResults" /\ labels = << >>) =>
        /\ ret.type = "unknown"
        /\ ret.confidence = 0
        /\ ret.possibleTypes = << >>
        /\ DOMAIN ret.analysis = {}

\* interpretResults returned from a call with no label and a LINE text
C10_Witness ==
    /\ Returned("interpretResults")
    /\ labels = << >>
    /\ InputLines # << >>
    /\ ret.type = "unknown"

\* the positions of the LINE entries among the call's text detections
LinePositions ==
    {i \in 1..Len(textDetections) : textDetections[i].Type = "LINE"}

\* C11: detectedText holds exactly the LINE entries of the text detections,
\* in their original relative order, each as {text, confidence}, and nothing
\* that comes from an entry of another type; detectedLabels holds one
\* {name, confidence} entry per input label, in input order.
C11_EvidenceKept ==
    Returned("interpretResults") =>
        /\ Len(ret.detectedText) = Cardinality(LinePositions)
        /\ \A i \in LinePositions :
              ret.detectedText[Cardinality({j \in LinePositions : j <= i})] =
                  [ text |-> textDetections[i].DetectedText,
                    confidence |-> textDetections[i].Confidence ]
        /\ Len(ret.detectedLabels) = Len(labels)
        /\ \A i \in 1..Len(labels) :
              ret.detectedLabels[i] =
                  [name |-> labels[i].Name, confidence |-> labels[i].Confidence]

\* a WORD entry stood between two different LINE entries, and two different
\* labels were given
C11_Witness ==
    /\ Returned("interpretResults")
    /\ Len(textDetections) = 3
    /\ textDetections[1].Type = "LINE"
    /\ textDetections[2].Type = "WORD"
    /\ textDetections[3].Type = "LINE"
    /\ textDetections[1].DetectedText # textDetections[3].DetectedText
    /\ Len(ret.detectedText) = 2
    /\ ret.detectedText[1].text = textDetections[1].DetectedText
    /\ ret.detectedText[2].text = textDetections[3].DetectedText
    /\ Len(labels) = 2
    /\ labels[1] # labels[2]
    /\ Len(ret.detectedLabels) = 2

\* generateIdentificationSummary has returned the summary of ret
Summarised == pc = "returned" /\ op = "generateIdentificationSummary"

\* the position of the first line break of s, Len(s) + 1 when s has none
RECURSIVE LineEnd(_, _)
LineEnd(s, i) ==
    IF i > Len(s) \/ CharAt(s, i) = "\n" THEN i ELSE LineEnd(s, i + 1)

\* the lines of s
RECURSIVE LinesOf(_)
LinesOf(s) ==
    LET e == LineEnd(s, 1)
    IN  IF e > Len(s) THEN << s >>
        ELSE << SubSeq(s, 1, e - 1) >> \o LinesOf(SubSeq(s, e + 1, Len(s)))

SummaryLines == LinesOf(summary[1])

\* the tenths t are the ones nearest to a confidence of c quarters, the
\* larger ones of two that are equally near
NearestTenths(t, c) == 4 * t - 10 * c > -2 /\ 4 * t - 10 * c <= 2

\* C12: the first line of every summary is "Identified as: <type>
\* (<confidence to one decimal>% confidence)"; the summary has no further
\* line when the type is "unknown" or another type without an extractor; the
\* summary of an unknown result of confidence 0 is exactly
\* "Identified as: unknown (0.0% confidence)".
C12_IdentificationLine ==
    Summarised =>
        /\ \E t \in (2 * ret.confidence)..(3 * ret.confidence + 1) :
              /\ NearestTenths(t, ret.confidence)
              /\ SummaryLines[1] =
                     "Identified as: " \o ret.type \o " ("
                         \o NumberToString(t \div 10) \o "."
                         \o NumberToString(t % 10) \o "% confidence)"
        /\ ret.type \notin {"resistor", "capacitor", "integrated_circuit"}
              => Len(SummaryLines) = 1
        /\ (ret.type = "unknown" /\ ret.confidence = 0)
              => summary[1] = "Identified as: unknown (0.0% confidence)"

\* a diode of confidence 90.25% was summarised: one line, rounded to 90.3
C12_Witness ==
    /\ Summarised
    /\ ret.type = "diode"
    /\ ret.confidence = 361
    /\ summary[1] = "Identified as: diode (90.3% confidence)"

\* C13: the summary of a resistor result has at most one line after the
\* first: the estimated value when there is one, otherwise the detected
\* colors joined by ", " when hasColorBands is true, never both, and no line
\* when there is no estimated value and hasColorBands is false.
C13_ResistorOneLine ==
    (Summarised /\ ret.type = "resistor") =>
        LET resistor == ret.analysis["resistor"]
        IN  Tail(SummaryLines) =
                IF resistor.estimatedValue # << >>
                THEN << "Estimated value: " \o resistor.estimatedValue[1] >>
                ELSE IF resistor.hasColorBands
                THEN << "Color bands detected: "
                            \o join(resistor.detectedColors, ", ") >>
                ELSE << >>

\* a resistor with color bands and an estimated value was summarised: only
\* the estimated value is reported
C13_Witness ==
    /\ Summarised
    /\ ret.type = "resistor"
    /\ ret.analysis["resistor"].hasColorBands
    /\ Len(ret.analysis["resistor"].detectedColors) = 2
    /\ ret.analysis["resistor"].estimatedValue # << >>
    /\ Len(SummaryLines) = 2
    /\ SummaryLines[2] = "Estimated value: " \o ret.analysis["resistor"].estimatedValue[1]

C15_InterpretedAfterBothFetches ==
    op = "analyzeComponent" =>
        /\ interpretCalls <= 1
        /\ interpretCalls = 1 =>
              /\ labelsFetch.state = "fulfilled"
              /\ textFetch.state = "fulfilled"
              /\ labels = labelsFetch.value
              /\ textDetections = textFetch.value
              /\ Len(ret.detectedLabels) = Len(labelsFetch.value)
        /\ pc = "returned" <=> interpretCalls = 1
        /\ (labelsFetch.state = "rejected" \/ textFetch.state = "rejected") =>
              /\ interpretCalls = 0
              /\ pc # "returned"
              /\ ret = << >>

\* the text fetch, started second, was fulfilled first, the label fetch
\* after it, and interpretResults was then invoked on two labels and a text
C15_Witness ==
    /\ op = "analyzeComponent"
    /\ pc = "returned"
    /\ interpretCalls = 1
    /\ textFetch.at = 1
    /\ labelsFetch.at = 2
    /\ Len(labels) = 2
    /\ Len(textDetections) = 1
    /\ Len(ret.detectedLabels) = 2

\* C16: analyzeComponent called with the key string of the README's usage
\* completes with a result that has the identification under componentData
\* (componentData.type, componentData.analysis) and a summary.
C16_KeyStringAnalyzed ==
    ( /\ op = "analyzeComponent"
      /\ imageSource = ReadmeSource
      /\ pc \in {"returned", "rejected"} ) =>
        /\ pc = "returned"
        /\ {"componentData", "summary"} \subseteq DOMAIN ret
        /\ {"type", "analysis"} \subseteq DOMAIN ret["componentData"]

\* the label of match m holds the keyword, in whatever case
LabelHolds(m, keyword) == includes(toLowerCase(m.matchedLabel), keyword)

\* C17: when possibleTypes has a resistor match whose label holds
\* "electronic component", or a capacitor match whose label holds
\* "electrolytic" or "ceramic", it has an integrated_circuit match too; and
\* when one label gave both matches, with the same confidence, the resistor
\* or capacitor match stands before the integrated_circuit match.
C17_IcKeywordOverlaps ==
    Returned("identifyComponentType") =>
        /\ ( \E i \in 1..Len(ret) :
                \/ ret[i].type = "resistor"
                      /\ LabelHolds(ret[i], "electronic component")
                \/ ret[i].type = "capacitor"
                      /\ ( LabelHolds(ret[i], "electrolytic")
                             \/ LabelHolds(ret[i], "ceramic") ) )
              => \E j \in 1..Len(ret) : ret[j].type = "integrated_circuit"
        /\ \A i, j \in 1..Len(ret) :
              ( /\ ret[i].type \in {"resistor", "capacitor"}
                /\ ret[j].type = "integrated_circuit"
                /\ ret[i].matchedLabel = ret[j].matchedLabel
                /\ ret[i].confidence = ret[j].confidence )
              => i < j

\* "Electronic Component" gave the resistor and the integrated_circuit
\* match, a label of higher confidence gave the capacitor match before them
C17_Witness ==
    /\ Returned("identifyComponentType")
    /\ Len(ret) = 3
    /\ ret[1].type = "capacitor"
    /\ ret[1].matchedLabel = "Electrolytic Capacitor"
    /\ ret[2].type = "resistor"
    /\ ret[3].type = "integrated_circuit"
    /\ ret[2].matchedLabel = "Electronic Component"
    /\ ret[3].matchedLabel = "Electronic Component"
    /\ ret[2].confidence = ret[3].confidence

====
